---- MODULE Spec2Model ----
(***************************************************************************)
(* Model of the conversational recommendation handler of                   *)
(* backend/app/main.py: recommend_products and the helpers it calls        *)
(* (classify_product_title, clean_json, extract_price).                    *)
(*                                                                         *)
(* Conventions.  A Python str is a sequence of one-character strings, so   *)
(* that lower(), strip(), split() and the "in" substring test are computed *)
(* character by character.  A Python / JSON value is a record [t, s, n]    *)
(* with tag t in {"absent","null","str","num","list"}.  Money is counted   *)
(* in cents and similarity scores in thousandths, so 0.90 is 900 and 0.05  *)
(* is 50.  An exception that leaves the handler is the terminal state      *)
(* pc = "raised".                                                          *)
(***************************************************************************)
EXTENDS Integers, Sequences, FiniteSets, TLC

(***************************************************************************)
(* Bounds of the model.                                                    *)
(***************************************************************************)
MaxLast == 4
MaxMatches == 4
MaxScores == 4
MaxFilterLen == 3

(***************************************************************************)
(* Python str operations.                                                  *)
(***************************************************************************)
UpperAlpha ==
  <<"A","B","C","D","E","F","G","H","I","J","K","L","M",
    "N","O","P","Q","R","S","T","U","V","W","X","Y","Z">>

LowerAlpha ==
  <<"a","b","c","d","e","f","g","h","i","j","k","l","m",
    "n","o","p","q","r","s","t","u","v","w","x","y","z">>

Whitespace == {" ", "\t", "\n"}

Digits == <<"0","1","2","3","4","5","6","7","8","9">>

LowerChar(c) ==
  IF \E i \in 1..26 : UpperAlpha[i] = c
  THEN LowerAlpha[CHOOSE i \in 1..26 : UpperAlpha[i] = c]
  ELSE c

UpperChar(c) ==
  IF \E i \in 1..26 : LowerAlpha[i] = c
  THEN UpperAlpha[CHOOSE i \in 1..26 : LowerAlpha[i] = c]
  ELSE c

\* str.lower()
lower(s) == [i \in 1..Len(s) |-> LowerChar(s[i])]

\* str.upper()
upper(s) == [i \in 1..Len(s) |-> UpperChar(s[i])]

\* sub in s
Contains(sub, s) ==
  \E i \in 0..(Len(s) - Len(sub)) : SubSeq(s, i + 1, i + Len(sub)) = sub

\* any(kw in s for kw in kws)
ContainsAny(kws, s) == \E k \in 1..Len(kws) : Contains(kws[k], s)

\* str.strip()
strip(s) ==
  IF \A i \in 1..Len(s) : s[i] \in Whitespace
  THEN <<>>
  ELSE LET a == CHOOSE i \in 1..Len(s) :
                  s[i] \notin Whitespace /\ \A j \in 1..(i - 1) : s[j] \in Whitespace
           b == CHOOSE i \in 1..Len(s) :
                  s[i] \notin Whitespace /\ \A j \in (i + 1)..Len(s) : s[j] \in Whitespace
       IN SubSeq(s, a, b)

\* s.strip().split() is empty: indexing [0] raises IndexError
NoToken(s) == \A i \in 1..Len(s) : s[i] \in Whitespace

\* s.strip().split()[0], for a string with at least one token
FirstToken(s) ==
  LET a == CHOOSE i \in 1..Len(s) :
             s[i] \notin Whitespace /\ \A j \in 1..(i - 1) : s[j] \in Whitespace
      b == CHOOSE j \in a..Len(s) :
             /\ \A k \in a..j : s[k] \notin Whitespace
             /\ (j = Len(s) \/ s[j + 1] \in Whitespace)
  IN SubSeq(s, a, b)

IsDigit(c) == \E i \in 1..10 : Digits[i] = c

DigitVal(c) == (CHOOSE i \in 1..10 : Digits[i] = c) - 1

\* index of the first character at or after i that is not whitespace
\* (Len(s) + 1 when there is none): the regex fragment \s*
SkipWs(s, i) ==
  CHOOSE j \in i..(Len(s) + 1) :
    /\ (j = Len(s) + 1 \/ s[j] \notin Whitespace)
    /\ \A k \in i..(j - 1) : s[k] \in Whitespace

\* index of the last digit of the run of digits that starts at i: the
\* greedy regex fragment \d+ matched at a digit
DigitRunEnd(s, i) ==
  CHOOSE j \in i..Len(s) :
    /\ \A k \in i..j : IsDigit(s[k])
    /\ (j = Len(s) \/ ~IsDigit(s[j + 1]))

RECURSIVE ParseNat(_)
\* int() of a string of digits
ParseNat(ds) ==
  IF ds = <<>> THEN 0
  ELSE 10 * ParseNat(SubSeq(ds, 1, Len(ds) - 1)) + DigitVal(ds[Len(ds)])

(***************************************************************************)
(* Python / JSON values.                                                   *)
(***************************************************************************)
Absent == [t |-> "absent", s |-> <<>>, n |-> 0]
None == [t |-> "null", s |-> <<>>, n |-> 0]
Str(x) == [t |-> "str", s |-> x, n |-> 0]
Num(x) == [t |-> "num", s |-> <<>>, n |-> x]
\* a non-empty JSON array: truthy, has no lower(), is unhashable and does
\* not order against a float
List == [t |-> "list", s |-> <<>>, n |-> 0]

\* bool(v)
Truthy(v) ==
  \/ v.t = "str" /\ v.s # <<>>
  \/ v.t = "num" /\ v.n # 0
  \/ v.t = "list"

DictKeys == {"category", "material", "color", "size", "price_max", "brand"}

\* {} ; the field extra stands for any key the handler never reads
EmptyDict ==
  [category |-> Absent, material |-> Absent, color |-> Absent,
   size |-> Absent, price_max |-> Absent, brand |-> Absent, extra |-> FALSE]

\* not d
IsEmptyDict(d) == (\A k \in DictKeys : d[k].t = "absent") /\ ~d.extra

\* d.get(k)
Get(d, k) == IF d[k].t = "absent" THEN None ELSE d[k]

\* d.get(k, default)
GetOr(d, k, default) == IF d[k].t = "absent" THEN default ELSE d[k]

(***************************************************************************)
(* clean_json: the text between the first "{" and the last "}" is parsed;  *)
(* anything else, and any parse error, gives {}.  A model reply is         *)
(* [ok, shape, obj]: ok = FALSE is a failed call, shape tells whether the  *)
(* text has a brace-delimited part and whether that part is a JSON object. *)
(***************************************************************************)
clean_json(reply) ==
  IF reply.shape = "json" THEN reply.obj ELSE EmptyDict

(***************************************************************************)
(* extract_price.  The result is [raises, some, val]: raises is the        *)
(* AttributeError of replace() on a number, some = FALSE is None, val is   *)
(* the float in cents.                                                     *)
(***************************************************************************)
PriceNone == [raises |-> FALSE, some |-> FALSE, val |-> 0]

\* the two digits after the decimal point, in cents
FracCents(ds) ==
  IF Len(ds) = 0 THEN 0
  ELSE IF Len(ds) = 1 THEN 10 * DigitVal(ds[1])
  ELSE 10 * DigitVal(ds[1]) + DigitVal(ds[2])

\* re.search(r'\d+\.?\d*', s) and float() of the match, in cents
SearchNumber(s) ==
  IF ~\E i \in 1..Len(s) : IsDigit(s[i])
  THEN PriceNone
  ELSE LET a == CHOOSE i \in 1..Len(s) :
                  IsDigit(s[i]) /\ \A j \in 1..(i - 1) : ~IsDigit(s[j])
           e == DigitRunEnd(s, a)
           dot == e + 1 <= Len(s) /\ s[e + 1] = "."
           f == IF dot /\ e + 2 <= Len(s) /\ IsDigit(s[e + 2])
                THEN SubSeq(s, e + 2, DigitRunEnd(s, e + 2))
                ELSE <<>>
       IN [raises |-> FALSE, some |-> TRUE,
           val |-> 100 * ParseNat(SubSeq(s, a, e)) + FracCents(f)]

IsPriceChar(c) == c \notin {"$", ","}

extract_price(price_str) ==
  IF ~Truthy(price_str) \/ price_str = Str(<<"N","/","A">>)
  THEN PriceNone
  ELSE IF price_str.t # "str"
  THEN [raises |-> TRUE, some |-> FALSE, val |-> 0]
  ELSE SearchNumber(SelectSeq(price_str.s, IsPriceChar))

(***************************************************************************)
(* classify_product_title.  reply is the classifier model's reply          *)
(* [ok, text]; title is the value read from the candidate's metadata.      *)
(***************************************************************************)
s_sofa == <<"s","o","f","a">>
s_chair == <<"c","h","a","i","r">>
s_bed == <<"b","e","d">>
s_table == <<"t","a","b","l","e">>
s_ottoman == <<"o","t","t","o","m","a","n">>
s_storage == <<"s","t","o","r","a","g","e">>
s_sports == <<"s","p","o","r","t","s">>
s_electronics == <<"e","l","e","c","t","r","o","n","i","c","s">>
s_other == <<"o","t","h","e","r">>

valid_categories ==
  <<s_sofa, s_chair, s_bed, s_table, s_ottoman, s_storage, s_sports, s_other>>

SofaKeywords ==
  <<s_sofa, <<"c","o","u","c","h">>, <<"s","e","c","t","i","o","n","a","l">>,
    <<"l","o","v","e","s","e","a","t">>>>

ChairKeywords == <<s_chair, <<"r","e","c","l","i","n","e","r">>>>

BedKeywords == <<s_bed, <<"b","e","d","f","r","a","m","e">>>>

TableKeywords == <<s_table, <<"d","e","s","k">>>>

OttomanKeywords == <<s_ottoman, <<"f","o","o","t","s","t","o","o","l">>>>

\* the keyword scan of lines 214-226
KeywordCategory(title_lower) ==
  IF ContainsAny(SofaKeywords, title_lower) THEN s_sofa
  ELSE IF ContainsAny(ChairKeywords, title_lower) THEN s_chair
  ELSE IF ContainsAny(BedKeywords, title_lower) THEN s_bed
  ELSE IF ContainsAny(TableKeywords, title_lower) THEN s_table
  ELSE IF ContainsAny(OttomanKeywords, title_lower) THEN s_ottoman
  ELSE s_other

classify_product_title(title, reply) ==
  IF ~reply.ok THEN s_other
  ELSE LET category == lower(strip(reply.text))
       IN IF \E i \in 1..Len(valid_categories) : valid_categories[i] = category
          THEN category
          ELSE IF title.t # "str"
          THEN s_other                 \* title.lower() raises, caught at 228
          ELSE KeywordCategory(lower(title.s))

(***************************************************************************)
(* Filter Engine of the follow-up path (lines 406-466).  Each predicate    *)
(* gives "pass", "reject" or "raise" (an exception the handler does not    *)
(* catch).  A product is [id, title, price, color, material, brand] with   *)
(* title a str and the other attributes Optional[str].                     *)
(***************************************************************************)
LargeKeywords ==
  << <<"l","a","r","g","e">>, <<"o","v","e","r","s","i","z","e","d">>,
     <<"b","i","g">>, <<"x","l">>, <<"k","i","n","g">>, <<"q","u","e","e","n">> >>

SmallKeywords ==
  << <<"s","m","a","l","l">>, <<"c","o","m","p","a","c","t">>,
     <<"m","i","n","i">>, <<"t","w","i","n">> >>

\* (v or '')
OrEmpty(v) == IF Truthy(v) THEN v.s ELSE <<>>

\* lines 413-417 rejecting a product whose price does not parse
PriceCheck_NoPrice(price_str, f) ==
  LET price_max == Get(f, "price_max")
      price == extract_price(price_str)
  IN IF ~Truthy(price_max) THEN "pass"
     ELSE IF price.raises THEN "raise"
     ELSE IF ~price.some THEN "reject"
     ELSE IF price_max.t # "num" THEN "raise"
     ELSE IF price.val > price_max.n THEN "reject"
     ELSE "pass"

\* lines 413-417 with a missing price_max read as 0
PriceCheck_Mut(price_str, f) ==
  LET price_max == Get(f, "price_max")
      price == extract_price(price_str)
  IN IF price.raises THEN "raise"
     ELSE IF ~(price.some /\ price.val # 0) THEN "pass"
     ELSE IF price_max.t \notin {"num", "null"} THEN "raise"
     ELSE IF price.val > price_max.n THEN "reject"
     ELSE "pass"

\* lines 413-417 and 598-602: price_str is the product's price value
PriceCheck(price_str, f) ==
  LET price_max == Get(f, "price_max")
      price == extract_price(price_str)
  IN IF ~Truthy(price_max) THEN "pass"
     ELSE IF price.raises THEN "raise"
     ELSE IF ~(price.some /\ price.val # 0) THEN "pass"
     ELSE IF price_max.t # "num" THEN "raise"
     ELSE IF price.val > price_max.n THEN "reject"
     ELSE "pass"

\* lines 420-427
ColorCheck(product, f) ==
  LET req == Get(f, "color")
  IN IF ~Truthy(req) THEN "pass"
     ELSE IF req.t # "str" THEN "raise"
     ELSE IF ~Contains(lower(req.s), lower(product.title))
             /\ ~Contains(lower(req.s), lower(OrEmpty(product.color)))
     THEN "reject"
     ELSE "pass"

\* lines 430-441
SizeCheck(product, f) ==
  LET req == Get(f, "size")
  IN IF ~Truthy(req) THEN "pass"
     ELSE IF req.t # "str" THEN "raise"
     ELSE IF lower(req.s) = <<"l","a","r","g","e">>
     THEN IF ContainsAny(LargeKeywords, lower(product.title))
          THEN "pass" ELSE "reject"
     ELSE IF lower(req.s) = <<"s","m","a","l","l">>
     THEN IF ContainsAny(SmallKeywords, lower(product.title))
          THEN "pass" ELSE "reject"
     ELSE "pass"

\* lines 444-451
MaterialCheck(product, f) ==
  LET req == Get(f, "material")
  IN IF ~Truthy(req) THEN "pass"
     ELSE IF req.t # "str" THEN "raise"
     ELSE IF ~Contains(lower(req.s), lower(product.title))
             /\ ~Contains(lower(req.s), lower(OrEmpty(product.material)))
     THEN "reject"
     ELSE "pass"

\* lines 454-460
BrandCheck(product, f) ==
  LET req == Get(f, "brand")
  IN IF ~Truthy(req) THEN "pass"
     ELSE IF req.t # "str" THEN "raise"
     ELSE IF ~Contains(lower(req.s), lower(OrEmpty(product.brand)))
     THEN "reject"
     ELSE "pass"

\* the first predicate, in evaluation order, that does not pass: each later
\* predicate is guarded by "keep and", so it is evaluated only while every
\* earlier one has passed
FirstVerdict(verdicts) ==
  IF \A i \in 1..Len(verdicts) : verdicts[i] = "pass"
  THEN "pass"
  ELSE verdicts[CHOOSE i \in 1..Len(verdicts) :
                  verdicts[i] # "pass" /\ \A j \in 1..(i - 1) : verdicts[j] = "pass"]

\* one iteration of the loop of line 408
KeepProduct(product, f) ==
  FirstVerdict(<<PriceCheck(product.price, f), ColorCheck(product, f),
                 SizeCheck(product, f), MaterialCheck(product, f),
                 BrandCheck(product, f)>>)

\* the loop of lines 407-466 starting at the second product
ApplyFilters_Skip(products, f) ==
  LET Kept(p) == KeepProduct(p, f) = "pass"
  IN [raised |-> \E i \in 1..Len(products) : KeepProduct(products[i], f) = "raise",
      out |-> IF products = <<>> THEN <<>> ELSE SelectSeq(Tail(products), Kept)]

\* the loop of lines 407-466: [raised, out], out being the list "filtered"
ApplyFilters(products, f) ==
  LET Kept(p) == KeepProduct(p, f) = "pass"
  IN [raised |-> \E i \in 1..Len(products) : KeepProduct(products[i], f) = "raise",
      out |-> SelectSeq(products, Kept)]

(***************************************************************************)
(* Result selection (lines 609-636).                                       *)
(***************************************************************************)
PerfectScore == 900
PerfectGap == 50
TopN == 3

\* lines 611-616 with the gap compared by >=
is_perfect_match_Mut(m) ==
  /\ Len(m) > 0
  /\ m[1].score > PerfectScore
  /\ \/ Len(m) = 1
     \/ Len(m) > 1 /\ m[1].score - m[2].score >= PerfectGap

\* lines 611-616
is_perfect_match(m) ==
  /\ Len(m) > 0
  /\ m[1].score > PerfectScore
  /\ \/ Len(m) = 1
     \/ Len(m) > 1 /\ m[1].score - m[2].score > PerfectGap

\* lines 620-636 without the cut of line 635
SelectResults_Mut(m) ==
  IF Len(m) = 0 THEN m
  ELSE IF is_perfect_match(m) THEN SubSeq(m, 1, 1)
  ELSE m

\* lines 620-636
SelectResults(m) ==
  IF Len(m) = 0 THEN m
  ELSE IF is_perfect_match(m) THEN SubSeq(m, 1, 1)
  ELSE IF Len(m) = 1 THEN m
  ELSE IF Len(m) = 2 THEN m
  ELSE SubSeq(m, 1, TopN)

(***************************************************************************)
(* Rule-based extraction of the follow-up path (lines 378-404), applied    *)
(* to query.query.lower() when the parsed filters are empty.               *)
(***************************************************************************)
PriceWords ==
  << <<"u","n","d","e","r">>, <<"b","e","l","o","w">>,
     <<"l","e","s","s"," ","t","h","a","n">>, <<"<">> >>

FallbackLarge == << <<"l","a","r","g","e">>, <<"b","i","g">>,
                    <<"o","v","e","r","s","i","z","e","d">> >>

FallbackSmall == << <<"s","m","a","l","l">>, <<"c","o","m","p","a","c","t">>,
                    <<"m","i","n","i">> >>

colors ==
  << <<"r","e","d">>, <<"b","l","u","e">>, <<"g","r","e","e","n">>,
     <<"b","l","a","c","k">>, <<"w","h","i","t","e">>, <<"g","r","a","y">>,
     <<"g","r","e","y">>, <<"b","r","o","w","n">>, <<"y","e","l","l","o","w">>,
     <<"n","a","v","y">>, <<"b","e","i","g","e">>, <<"t","a","n">> >>

materials ==
  << <<"w","o","o","d">>, <<"w","o","o","d","e","n">>, <<"m","e","t","a","l">>,
     <<"f","a","b","r","i","c">>, <<"l","e","a","t","h","e","r">>,
     <<"v","e","l","v","e","t">>, <<"p","l","a","s","t","i","c">> >>

NoMatch == [found |-> FALSE, val |-> 0]

\* \s*\$?\s*(\d+) matched at index j: the group, in cents
AmountAt(s, j) ==
  LET a == SkipWs(s, j)
      b == IF a <= Len(s) /\ s[a] = "$" THEN a + 1 ELSE a
      c == SkipWs(s, b)
  IN IF c <= Len(s) /\ IsDigit(s[c])
     THEN [found |-> TRUE, val |-> 100 * ParseNat(SubSeq(s, c, DigitRunEnd(s, c)))]
     ELSE NoMatch

\* (?:under|below|less than|<)\s*\$?\s*(\d+) matched at index i
UnderAt(s, i) ==
  IF \E k \in 1..Len(PriceWords) :
       /\ i + Len(PriceWords[k]) - 1 <= Len(s)
       /\ SubSeq(s, i, i + Len(PriceWords[k]) - 1) = PriceWords[k]
       /\ AmountAt(s, i + Len(PriceWords[k])).found
  THEN LET k == CHOOSE k \in 1..Len(PriceWords) :
                  /\ i + Len(PriceWords[k]) - 1 <= Len(s)
                  /\ SubSeq(s, i, i + Len(PriceWords[k]) - 1) = PriceWords[k]
                  /\ AmountAt(s, i + Len(PriceWords[k])).found
       IN AmountAt(s, i + Len(PriceWords[k]))
  ELSE NoMatch

\* \$?\s*(\d+)\s*\$ matched at index i
TrailingAt(s, i) ==
  LET c == SkipWs(s, IF s[i] = "$" THEN i + 1 ELSE i)
      e == IF c <= Len(s) /\ IsDigit(s[c]) THEN DigitRunEnd(s, c) ELSE 0
      d == IF e > 0 THEN SkipWs(s, e + 1) ELSE 0
  IN IF e > 0 /\ d <= Len(s) /\ s[d] = "$"
     THEN [found |-> TRUE, val |-> 100 * ParseNat(SubSeq(s, c, e))]
     ELSE NoMatch

\* re.search of line 382: the match at the leftmost index that has one
SearchUnder(s) ==
  IF \E i \in 1..Len(s) : UnderAt(s, i).found
  THEN UnderAt(s, CHOOSE i \in 1..Len(s) :
                    UnderAt(s, i).found /\ \A j \in 1..(i - 1) : ~UnderAt(s, j).found)
  ELSE NoMatch

\* re.search of line 384
SearchTrailing(s) ==
  IF \E i \in 1..Len(s) : TrailingAt(s, i).found
  THEN TrailingAt(s, CHOOSE i \in 1..Len(s) :
                       TrailingAt(s, i).found /\ \A j \in 1..(i - 1) : ~TrailingAt(s, j).found)
  ELSE NoMatch

\* lines 382-386
FallbackPrice(query_lower) ==
  IF SearchUnder(query_lower).found
  THEN SearchUnder(query_lower)
  ELSE SearchTrailing(query_lower)

\* the first word of a priority list that occurs in s
FirstIn(words, s) ==
  words[CHOOSE i \in 1..Len(words) :
          Contains(words[i], s) /\ \A j \in 1..(i - 1) : ~Contains(words[j], s)]

\* material.replace('wooden', 'wood') on a word of the list materials
ReplaceWooden(m) ==
  IF m = <<"w","o","o","d","e","n">> THEN <<"w","o","o","d">> ELSE m

\* lines 379-404
FallbackFilters(query_lower) ==
  [category |-> Absent,
   brand |-> Absent,
   extra |-> FALSE,
   price_max |-> IF FallbackPrice(query_lower).found
                 THEN Num(FallbackPrice(query_lower).val) ELSE Absent,
   size |-> IF ContainsAny(FallbackLarge, query_lower) THEN Str(<<"l","a","r","g","e">>)
            ELSE IF ContainsAny(FallbackSmall, query_lower) THEN Str(<<"s","m","a","l","l">>)
            ELSE Absent,
   color |-> IF ContainsAny(colors, query_lower)
             THEN Str(FirstIn(colors, query_lower)) ELSE Absent,
   material |-> IF ContainsAny(materials, query_lower)
                THEN Str(ReplaceWooden(FirstIn(materials, query_lower))) ELSE Absent]

\* lines 481-491: the constraints named in the no-results explanation
filter_desc(f) ==
  LET Named(k) == IF Truthy(Get(f, k)) THEN <<k>> ELSE <<>>
  IN Named("price_max") \o Named("color") \o Named("material")
       \o Named("size") \o Named("brand")

(***************************************************************************)
(* Per-candidate checks of the search path (lines 563-605).  A candidate   *)
(* is [id, score, metadata]; metadata is [title, material, color, price],  *)
(* each a value, Absent when the key is missing.                           *)
(***************************************************************************)
\* line 570 letting unclassified products through
CategoryMismatch_Mut(category, product_category) ==
  /\ category # Str(s_other)
  /\ Str(product_category) # category
  /\ product_category # s_other

\* line 570
CategoryMismatch(category, product_category) ==
  /\ category # Str(s_other)
  /\ Str(product_category) # category

\* lines 582-587 and 590-595: key is "material" or "color"
AttributeCheck(key, title, metadata, p) ==
  LET req == Get(p, key)
      meta == GetOr(metadata, key, Str(<<>>))
  IN IF ~Truthy(req) THEN "pass"
     ELSE IF req.t # "str" THEN "raise"
     ELSE IF meta.t # "str" THEN "raise"
     ELSE IF ~Contains(lower(req.s), lower(title))
             /\ ~Contains(lower(req.s), lower(meta.s))
     THEN "reject"
     ELSE "pass"

\* lines 579-602 for a candidate that passed the category check
KeepMatch(title, metadata, p) ==
  FirstVerdict(<<AttributeCheck("material", title, metadata, p),
                 AttributeCheck("color", title, metadata, p),
                 PriceCheck(GetOr(metadata, "price", Str(<<>>)), p)>>)

\* lines 530-538: the phrase handed to the embedding model; "<query>" is
\* query.query
category_search(category) ==
  IF category = Str(s_sofa) THEN "sofa couch sectional living room seating"
  ELSE IF category = Str(s_bed) THEN "bed frame bedroom sleeping"
  ELSE IF category = Str(s_chair) THEN "chair seating dining office"
  ELSE IF category = Str(s_table) THEN "table desk surface"
  ELSE IF category = Str(s_ottoman) THEN "ottoman footstool"
  ELSE IF category = Str(s_storage) THEN "dresser nightstand storage cabinet"
  ELSE "<query>"

\* lines 653-665: the fields of a recommendation that come from the match
Recommendation(match) ==
  [id |-> match.id,
   title |-> GetOr(match.metadata, "title", Str(<<"P","r","o","d","u","c","t">>)),
   price |-> GetOr(match.metadata, "price", Str(<<"N","/","A">>)),
   score |-> match.score,
   material |-> Get(match.metadata, "material"),
   color |-> Get(match.metadata, "color")]

(***************************************************************************)
(* Inputs: the request and the replies of the external collaborators.      *)
(***************************************************************************)
Queries ==
  { <<"u","n","d","e","r"," ","$","5">>,
    <<"M","i","n","i"," ","t","a","n"," ","w","o","o","d","e","n">>,
    <<"s","o","f","a","s">> }

\* the attributes of the i-th product the caller may send back
Product(i) ==
  LET k == ((i - 1) % 4) + 1
  IN IF k = 1 THEN
       [id |-> i, title |-> <<"R","e","d"," ","S","o","f","a">>,
        price |-> Str(<<"$","4">>), color |-> None,
        material |-> Str(<<"W","o","o","d">>), brand |-> Str(<<"A","c","m","e">>)]
     ELSE IF k = 2 THEN
       [id |-> i, title |-> <<"B","i","g"," ","B","e","d">>,
        price |-> Str(<<"$","9",".","5","0">>), color |-> Str(<<"R","e","d">>),
        material |-> None, brand |-> None]
     ELSE IF k = 3 THEN
       [id |-> i, title |-> <<"A","c","m","e"," ","M","i","n","i"," ","D","e","s","k">>,
        price |-> Str(<<"N","/","A">>), color |-> Str(<<"t","a","n">>),
        material |-> Str(<<"w","o","o","d","e","n">>), brand |-> None]
     ELSE
       [id |-> i, title |-> <<"O","a","k"," ","C","h","a","i","r">>,
        price |-> None, color |-> Str(<<>>),
        material |-> None, brand |-> Str(<<"A","C","M","E">>)]

\* query.last_products: None, or the first n products shown
NoProducts == [given |-> FALSE, items |-> <<>>]

LastProducts ==
  {NoProducts} \cup {[given |-> TRUE, items |-> [i \in 1..n |-> Product(i)]] : n \in 0..MaxLast}

\* replies of a text model: a failed call, or a text
Failure == [ok |-> FALSE, text |-> <<>>]
Text(x) == [ok |-> TRUE, text |-> x]

IntentReplies ==
  { Failure, Text(<<>>), Text(<<" ","\n">>),
    Text(<<"G","R","E","E","T","I","N","G">>),
    Text(<<"G","r","e","e","t","i","n","g","!">>),
    Text(<<"Q","U","E","S","T","I","O","N">>),
    Text(<<"Q","u","e","s","t","i","o","n","/","F","o","l","l","o","w","_","u","p">>),
    Text(<<" ","f","o","l","l","o","w","_","u","p","\n">>),
    Text(<<"s","e","a","r","c","h">>),
    Text(<<"S","u","r","e",","," ","Q","U","E","S","T","I","O","N">>) }

ClassifierReplies ==
  { Failure, Text(<<" ","S","o","f","a","\n">>), Text(<<"n","o"," ","i","d","e","a">>) }

\* replies of a model asked for JSON: a failed call, a text without a
\* brace-delimited part, a brace-delimited part that does not parse, or a
\* JSON object
JsonFailure == [ok |-> FALSE, shape |-> "none", obj |-> EmptyDict]
JsonNoBraces == [ok |-> TRUE, shape |-> "none", obj |-> EmptyDict]
JsonMalformed == [ok |-> TRUE, shape |-> "malformed", obj |-> EmptyDict]
Json(o) == [ok |-> TRUE, shape |-> "json", obj |-> o]

FollowupReplies ==
  { JsonFailure, JsonNoBraces, JsonMalformed,
    Json(EmptyDict),
    Json([EmptyDict EXCEPT !.extra = TRUE]),
    Json([EmptyDict EXCEPT !.price_max = Num(400)]),
    Json([EmptyDict EXCEPT !.price_max = None]),
    Json([EmptyDict EXCEPT !.price_max = Str(<<"5">>)]),
    Json([EmptyDict EXCEPT !.color = Str(<<"R","E","D">>)]),
    Json([EmptyDict EXCEPT !.color = Num(7)]),
    Json([EmptyDict EXCEPT !.size = Str(<<"L","a","r","g","e">>)]),
    Json([EmptyDict EXCEPT !.size = Str(<<"m","e","d","i","u","m">>)]),
    Json([EmptyDict EXCEPT !.material = Str(<<"w","o","o","d">>)]),
    Json([EmptyDict EXCEPT !.brand = Str(<<"a","c","m","e">>)]),
    Json([EmptyDict EXCEPT !.brand = List]),
    Json([EmptyDict EXCEPT !.color = Str(<<"r","e","d">>), !.price_max = Num(500)]) }

QueryReplies ==
  { JsonFailure, JsonNoBraces,
    Json(EmptyDict),
    Json([EmptyDict EXCEPT !.category = Str(s_other)]),
    Json([EmptyDict EXCEPT !.category = None]),
    Json([EmptyDict EXCEPT !.category = List]),
    Json([EmptyDict EXCEPT !.category = Str(s_sports)]),
    Json([EmptyDict EXCEPT !.category = Str(s_electronics)]),
    Json([EmptyDict EXCEPT !.category = Str(s_sofa)]),
    Json([EmptyDict EXCEPT !.category = Str(s_sofa), !.color = Str(<<"r","e","d">>)]),
    Json([EmptyDict EXCEPT !.material = Str(<<"w","o","o","d">>)]),
    Json([EmptyDict EXCEPT !.material = Num(3)]),
    Json([EmptyDict EXCEPT !.price_max = Num(400)]),
    Json([EmptyDict EXCEPT !.price_max = Str(<<"5">>)]) }

\* the i-th candidate of the vector index, in descending score order
Candidate(i) ==
  LET k == ((i - 1) % 4) + 1
      sc == IF i = 1 THEN 960 ELSE IF i = 2 THEN 930 ELSE IF i = 3 THEN 800
            ELSE 700 - 10 * (i - 4)
  IN [id |-> i, score |-> sc,
      metadata |->
        IF k = 1 THEN
          [title |-> Str(<<"R","e","d"," ","S","o","f","a">>), material |-> Absent,
           color |-> Str(<<"R","e","d">>), price |-> Str(<<"$","4">>)]
        ELSE IF k = 2 THEN
          [title |-> Str(<<"O","a","k"," ","C","h","a","i","r">>),
           material |-> Str(<<"W","o","o","d">>),
           color |-> Absent, price |-> Num(950)]
        ELSE IF k = 3 THEN
          [title |-> Str(<<"V","e","l","v","e","t"," ","C","o","u","c","h">>),
           material |-> Absent, color |-> Absent, price |-> Str(<<"$","9",".","5","0">>)]
        ELSE
          [title |-> Absent, material |-> Absent, color |-> Absent, price |-> Absent]]

\* the sub-lists of a list, order kept
SubLists(xs) ==
  { SelectSeq(xs, LAMBDA x : x.id \in keep) : keep \in SUBSET {xs[i].id : i \in 1..Len(xs)} }

\* results['matches'] of a successful index query
MatchLists == SubLists([i \in 1..MaxMatches |-> Candidate(i)])

(***************************************************************************)
(* State of one request to recommend_products.                             *)
(***************************************************************************)
VARIABLES
  pc,                \* position of the handler
  query,             \* the request: [query, last_products]
  intent,            \* line 333 / 337
  intent_error,      \* the except branch of line 335 was taken
  filters,           \* follow-up filters after lines 365-404
  filtered,          \* the list built by the loop of lines 407-466
  params,            \* line 509 / 513
  category,          \* line 515
  search_text,       \* lines 526-538
  matches,           \* results['matches']
  idx,               \* next element of the loop of line 563
  classifier_reply,  \* the classifier model's reply to the last title
  classified,        \* product_category of each candidate processed so far
  matched_products,  \* the list built by the loop of lines 563-605
  response,          \* the value returned
  calls              \* number of invocations of each collaborator

vars ==
  <<pc, query, intent, intent_error, filters, filtered, params, category,
    search_text, matches, idx, classifier_reply, classified, matched_products,
    response, calls>>

NoResponse ==
  [type |-> "none", response |-> "", detail |-> <<>>, recommendations |-> <<>>]

Reply(type, text, detail, recommendations) ==
  [type |-> type, response |-> text, detail |-> detail,
   recommendations |-> recommendations]

NoCalls ==
  [intent |-> 0, qa |-> 0, followup |-> 0, query |-> 0, embed |-> 0,
   index |-> 0, classify |-> 0]

\* a call site that invokes its model a second time
Called_Retry(name) == [calls EXCEPT ![name] = @ + 2]

Called(name) == [calls EXCEPT ![name] = @ + 1]

\* the locals of the handler before its first statement
Locals ==
  /\ intent = <<>>
  /\ intent_error = FALSE
  /\ filters = EmptyDict
  /\ filtered = <<>>
  /\ params = EmptyDict
  /\ category = None
  /\ search_text = ""
  /\ matches = <<>>
  /\ idx = 1
  /\ classifier_reply = Failure
  /\ classified = <<>>
  /\ matched_products = <<>>
  /\ response = NoResponse
  /\ calls = NoCalls

Init ==
  /\ pc = "intent"
  /\ query \in [query : Queries, last_products : LastProducts]
  /\ Locals

\* bool(query.last_products) read as "last_products is not None"
HasLastProducts_Mut == query.last_products.given

\* bool(query.last_products)
HasLastProducts == query.last_products.items # <<>>

\* line 347
IsQuestion == Contains(<<"Q","U","E","S","T","I","O","N">>, intent) /\ HasLastProducts

\* line 361 without the test of the intent word
IsFollowUp_Mut == query.last_products.items # <<>>

\* line 361
IsFollowUp == Contains(<<"F","O","L","L","O","W","_","U","P">>, intent) /\ HasLastProducts

\* lines 326-344
DetectIntent ==
  /\ pc = "intent"
  /\ \E reply \in IntentReplies :
       LET raised == ~reply.ok \/ NoToken(reply.text)
           word == IF raised THEN <<"S","E","A","R","C","H">>
                   ELSE upper(FirstToken(reply.text))
       IN /\ intent' = word
          /\ intent_error' = raised
          /\ IF Contains(<<"G","R","E","E","T","I","N","G">>, word)
             THEN /\ response' = Reply("greeting",
                         "Hello! I can help you find furniture. What are you looking for?",
                         <<>>, <<>>)
                  /\ pc' = "done"
             ELSE /\ response' = response
                  /\ pc' = "route"
  /\ calls' = Called("intent")
  /\ UNCHANGED <<query, classifier_reply, filters, filtered, params, category, search_text,
                 matches, idx, classified, matched_products>>

\* lines 346-358
AnswerQuestion ==
  /\ pc = "route"
  /\ IsQuestion
  /\ \E reply \in {Failure, Text(<<"I","t"," ","i","s",".">>)} :
       response' = Reply("answer",
                         IF reply.ok THEN "<answer>"
                         ELSE "Could you rephrase that question?",
                         <<>>, <<>>)
  /\ pc' = "done"
  /\ calls' = Called("qa")
  /\ UNCHANGED <<query, classifier_reply, intent, intent_error, filters, filtered, params,
                 category, search_text, matches, idx, classified,
                 matched_products>>

\* lines 468-501 with the slice of line 471 taken from the end of the list
FollowUpResponse_Last(f, out) ==
  IF out # <<>>
  THEN LET top == SubSeq(out, IF Len(out) < TopN THEN 1 ELSE Len(out) - TopN + 1,
                         Len(out))
       IN Reply("products",
                IF Len(top) > 1 THEN "I found <num> products matching your criteria:"
                ELSE "I found <num> product matching your criteria:",
                <<>>, top)
  ELSE IF filter_desc(f) # <<>>
  THEN Reply("no_results",
             "None of the displayed products are <filter_desc>. Try adjusting your filters.",
             filter_desc(f), <<>>)
  ELSE Reply("no_results", "None of the displayed products match those criteria.",
             <<>>, <<>>)

\* lines 468-501
FollowUpResponse(f, out) ==
  IF out # <<>>
  THEN LET top == SubSeq(out, 1, IF Len(out) < TopN THEN Len(out) ELSE TopN)
       IN Reply("products",
                IF Len(top) > 1 THEN "I found <num> products matching your criteria:"
                ELSE "I found <num> product matching your criteria:",
                <<>>, top)
  ELSE IF filter_desc(f) # <<>>
  THEN Reply("no_results",
             "None of the displayed products are <filter_desc>. Try adjusting your filters.",
             filter_desc(f), <<>>)
  ELSE Reply("no_results", "None of the displayed products match those criteria.",
             <<>>, <<>>)

\* lines 360-501
FollowUp ==
  /\ pc = "route"
  /\ ~IsQuestion
  /\ IsFollowUp
  /\ \E reply \in FollowupReplies :
       LET parsed == IF reply.ok THEN clean_json(reply) ELSE EmptyDict
           f == IF IsEmptyDict(parsed)
                THEN FallbackFilters(lower(query.query))
                ELSE parsed
           r == ApplyFilters(query.last_products.items, f)
       IN /\ filters' = f
          /\ IF r.raised
             THEN /\ pc' = "raised"
                  /\ filtered' = <<>>
                  /\ response' = response
             ELSE /\ pc' = "done"
                  /\ filtered' = r.out
                  /\ response' = FollowUpResponse(f, r.out)
  /\ calls' = Called("followup")
  /\ UNCHANGED <<query, classifier_reply, intent, intent_error, params, category, search_text,
                 matches, idx, classified, matched_products>>

\* line 518, with the way line 518 could forget one sentinel
NonFurniture_Mut(c) == c = Str(s_sports)

\* line 518
NonFurniture(c) == c \in {Str(s_sports), Str(s_electronics)}

\* lines 503-538
ParseQuery ==
  /\ pc = "route"
  /\ ~IsQuestion
  /\ ~IsFollowUp
  /\ \E reply \in QueryReplies :
       LET p == IF reply.ok THEN clean_json(reply)
                ELSE [EmptyDict EXCEPT !.category = Str(s_other)]
           c == GetOr(p, "category", Str(s_other))
       IN /\ params' = p
          /\ category' = c
          /\ IF NonFurniture(c)
             THEN /\ response' = Reply("no_results",
                         "I couldn't find any furniture matching your search. This is a furniture store - try searching for sofas, beds, chairs, tables, or other home furnishings.",
                         <<>>, <<>>)
                  /\ pc' = "done"
                  /\ search_text' = search_text
             ELSE IF c # Str(s_other) /\ c.t = "list"
             THEN \* category_search.get(category, ...): unhashable key
                  /\ pc' = "raised"
                  /\ UNCHANGED <<response, search_text>>
             ELSE /\ pc' = "embed"
                  /\ response' = response
                  /\ search_text' = IF c = Str(s_other) THEN "<query>"
                                    ELSE category_search(c)
  /\ calls' = Called("query")
  /\ UNCHANGED <<query, classifier_reply, intent, intent_error, filters, filtered, matches, idx,
                 classified, matched_products>>

\* lines 540-541: the embedding model returns a vector or raises
Embed ==
  /\ pc = "embed"
  /\ \E ok \in BOOLEAN : pc' = IF ok THEN "query" ELSE "raised"
  /\ calls' = Called("embed")
  /\ UNCHANGED <<query, classifier_reply, intent, intent_error, filters, filtered, params,
                 category, search_text, matches, idx, classified,
                 matched_products, response>>

\* lines 546-558: the index returns ranked matches or raises
QueryIndex ==
  /\ pc = "query"
  /\ \/ /\ pc' = "raised"
        /\ UNCHANGED <<matches, response>>
     \/ \E found \in MatchLists :
          /\ matches' = found
          /\ IF found = <<>>
             THEN /\ response' = Reply("no_results", "I couldn't find any products.",
                                        <<>>, <<>>)
                  /\ pc' = "done"
             ELSE /\ response' = response
                  /\ pc' = "match"
  /\ calls' = Called("index")
  /\ UNCHANGED <<query, classifier_reply, intent, intent_error, filters, filtered, params,
                 category, search_text, idx, classified, matched_products>>

\* lines 563-605: one iteration of the loop over results['matches']
ProcessMatch ==
  /\ pc = "match"
  /\ \E reply \in ClassifierReplies :
       LET match == matches[idx]
           title == GetOr(match.metadata, "title", Str(<<>>))
           product_category == classify_product_title(title, reply)
           verdict == IF title.t # "str" THEN "raise"      \* title[:80]
                      ELSE IF CategoryMismatch(category, product_category)
                      THEN "reject"
                      ELSE KeepMatch(title.s, match.metadata, params)
       IN /\ classifier_reply' = reply
          /\ classified' = Append(classified, product_category)
          /\ matched_products' = IF verdict = "pass"
                                 THEN Append(matched_products, match)
                                 ELSE matched_products
          /\ pc' = IF verdict = "raise" THEN "raised"
                   ELSE IF idx = Len(matches) THEN "select"
                   ELSE "match"
  /\ idx' = idx + 1
  /\ calls' = Called("classify")
  /\ UNCHANGED <<query, intent, intent_error, filters, filtered, params,
                 category, search_text, matches, response>>

\* lines 607-679; matched_products keeps the list of line 607
SelectAndReturn ==
  /\ pc = "select"
  /\ LET top == SelectResults(matched_products)
     IN response' =
          IF top = <<>>
          THEN Reply("no_results",
                     "I couldn't find any furniture matching your search. Try different keywords or filters.",
                     <<>>, <<>>)
          ELSE Reply("products",
                     IF Len(top) = 1 THEN "I found the perfect match:"
                     ELSE IF Len(top) = 2 THEN "I found 2 great options:"
                     ELSE "I found <num> products:",
                     <<>>, [i \in 1..Len(top) |-> Recommendation(top[i])])
  /\ pc' = "done"
  /\ UNCHANGED <<query, classifier_reply, intent, intent_error, filters, filtered, params,
                 category, search_text, matches, idx, classified,
                 matched_products, calls>>

Next ==
  \/ DetectIntent
  \/ AnswerQuestion
  \/ FollowUp
  \/ ParseQuery
  \/ Embed
  \/ QueryIndex
  \/ ProcessMatch
  \/ SelectAndReturn

Spec == Init /\ [][Next]_vars

(***************************************************************************)
(* The result selection on its own: every ranked list of survivors.        *)
(***************************************************************************)
Scores == {850, 900, 901, 951, 952}

\* lists of at most MaxScores candidates in descending score order
RankedLists ==
  UNION { { [i \in 1..n |-> [id |-> i, score |-> sc[i],
                             metadata |-> Candidate(i).metadata]] :
              sc \in { f \in [1..n -> Scores] :
                         \A i \in 1..(n - 1) : f[i] >= f[i + 1] } } :
          n \in 0..MaxScores }

InitSelect ==
  /\ pc = "select"
  /\ query = [query |-> <<"s","o","f","a","s">>, last_products |-> NoProducts]
  /\ intent = <<"S","E","A","R","C","H">>
  /\ intent_error = FALSE
  /\ filters = EmptyDict
  /\ filtered = <<>>
  /\ params = EmptyDict
  /\ category = Str(s_other)
  /\ search_text = "<query>"
  /\ matched_products \in RankedLists
  /\ matches = matched_products
  /\ idx = Len(matches) + 1
  /\ classifier_reply = Failure
  /\ classified = [i \in 1..Len(matches) |-> s_other]
  /\ response = NoResponse
  /\ calls = [NoCalls EXCEPT !.intent = 1, !.query = 1, !.embed = 1, !.index = 1,
                             !.classify = Len(matches)]

NextSelect == SelectAndReturn

SpecSelect == InitSelect /\ [][NextSelect]_vars

(***************************************************************************)
(* The Filter Engine on its own: every list of products and every          *)
(* well-typed FilterSpec.                                                  *)
(***************************************************************************)
\* lists of at most MaxFilterLen distinct products, in any order
ProductLists ==
  UNION { { ps \in [1..n -> {Product(i) : i \in 1..4}] :
              \A i, j \in 1..n : i # j => ps[i] # ps[j] } : n \in 0..MaxFilterLen }

FilterSpecs ==
  [category : {Absent},
   extra : {FALSE},
   price_max : {Absent, None, Num(400), Num(900)},
   color : {Absent, None, Str(<<"R","E","D">>)},
   size : {Absent, None, Str(<<"l","a","r","g","e">>), Str(<<"S","m","a","l","l">>)},
   material : {Absent, None, Str(<<"w","o","o","d">>)},
   brand : {Absent, None, Str(<<"a","c","m","e">>)}]

InitFilter ==
  /\ pc = "filter"
  /\ query \in [query : {<<>>},
                last_products : {[given |-> TRUE, items |-> ps] : ps \in ProductLists}]
  /\ filters \in FilterSpecs
  /\ intent = <<"F","O","L","L","O","W","_","U","P">>
  /\ intent_error = FALSE
  /\ filtered = <<>>
  /\ params = EmptyDict
  /\ category = None
  /\ search_text = ""
  /\ matches = <<>>
  /\ idx = 1
  /\ classifier_reply = Failure
  /\ classified = <<>>
  /\ matched_products = <<>>
  /\ response = NoResponse
  /\ calls = NoCalls

\* lines 406-466 applied to query.last_products with the given filters
FilterEngine ==
  /\ pc = "filter"
  /\ LET r == ApplyFilters(query.last_products.items, filters)
     IN /\ pc' = IF r.raised THEN "raised" ELSE "filtered"
        /\ filtered' = IF r.raised THEN <<>> ELSE r.out
  /\ UNCHANGED <<query, classifier_reply, intent, intent_error, filters, params,
                 category, search_text, matches, idx, classified,
                 matched_products, response, calls>>

\* lines 406-466 applied once more, to the list they produced
FilterAgain ==
  /\ pc = "filtered"
  /\ LET r == ApplyFilters(filtered, filters)
     IN /\ pc' = IF r.raised THEN "raised" ELSE "refiltered"
        /\ filtered' = IF r.raised THEN <<>> ELSE r.out
  /\ UNCHANGED <<query, classifier_reply, intent, intent_error, filters, params,
                 category, search_text, matches, idx, classified,
                 matched_products, response, calls>>

NextFilter == FilterEngine \/ FilterAgain

SpecFilter == InitFilter /\ [][NextFilter]_vars

(***************************************************************************)
(* classify_product_title on its own: every title and every reply.         *)
(***************************************************************************)
Titles ==
  { Absent, Num(7),
    Str(<<"R","e","d"," ","S","o","f","a">>),
    Str(<<"V","e","l","v","e","t"," ","C","o","u","c","h">>),
    Str(<<"O","a","k"," ","C","h","a","i","r">>),
    Str(<<"B","i","g"," ","B","e","d">>),
    Str(<<"A","c","m","e"," ","M","i","n","i"," ","D","e","s","k">>),
    Str(<<"S","o","f","a"," ","S","i","d","e"," ","T","a","b","l","e">>),
    Str(<<"F","o","o","t","s","t","o","o","l">>),
    Str(<<"L","a","m","p">>) }

AllClassifierReplies ==
  { Failure, Text(<<>>), Text(<<"n","o"," ","i","d","e","a">>),
    Text(<<" ","S","o","f","a","\n">>), Text(s_sofa), Text(s_chair), Text(s_bed),
    Text(s_table), Text(s_ottoman), Text(s_storage), Text(s_sports),
    Text(s_electronics), Text(s_other) }

InitClassify ==
  /\ pc = "match"
  /\ query = [query |-> <<"s","o","f","a","s">>, last_products |-> NoProducts]
  /\ intent = <<"S","E","A","R","C","H">>
  /\ intent_error = FALSE
  /\ filters = EmptyDict
  /\ filtered = <<>>
  /\ params = EmptyDict
  /\ category = Str(s_other)
  /\ search_text = "<query>"
  /\ \E title \in Titles :
       matches = <<[id |-> 1, score |-> 800,
                    metadata |-> [Candidate(4).metadata EXCEPT !.title = title]]>>
  /\ idx = 1
  /\ classifier_reply = Failure
  /\ classified = <<>>
  /\ matched_products = <<>>
  /\ response = NoResponse
  /\ calls = [NoCalls EXCEPT !.intent = 1, !.query = 1, !.embed = 1, !.index = 1]

\* line 567 with lines 202-230: the classification of matches[idx]
ClassifyTitle ==
  /\ pc = "match"
  /\ \E reply \in AllClassifierReplies :
       /\ classifier_reply' = reply
       /\ classified' =
            Append(classified,
                   classify_product_title(
                     GetOr(matches[idx].metadata, "title", Str(<<>>)), reply))
  /\ pc' = "classified"
  /\ calls' = Called("classify")
  /\ UNCHANGED <<query, intent, intent_error, filters, filtered, params,
                 category, search_text, matches, idx, matched_products, response>>

NextClassify == ClassifyTitle

SpecClassify == InitClassify /\ [][NextClassify]_vars

(***************************************************************************)
(* Properties.                                                             *)
(***************************************************************************)
Returned == pc = "done"

Routed == pc \notin {"intent", "route"}

ResponseTypes == {"greeting", "answer", "products", "no_results"}

Ids(xs) == {xs[i].id : i \in 1..Len(xs)}

HasWord(word) == Contains(word, intent)

\* C1: every request ends with the handler returning one of the tagged
\* responses; no exception leaves the handler.
C1_NoEscape ==
  /\ pc # "raised"
  /\ Returned => response.type \in ResponseTypes

\* C2: the recommendations returned to the caller never number more than 3,
\* on the search path and on the follow-up path.
C2_AtMostThree == Len(response.recommendations) <= 3

\* C2 witness: a follow-up request where more than 3 of the caller's
\* products survive the filters and a products response is returned.
C2_Witness ==
  /\ Returned
  /\ calls.followup = 1
  /\ Len(filtered) > 3
  /\ response.type = "products"

\* C3: the selection returns the prefix of the ranked survivors of length
\* 0, 1, 2, 3 for n = 0, 1, 2, n >= 3, except that it returns exactly the
\* leader when the leader scores above 0.90 and either stands alone or
\* leads the runner-up by more than 0.05; the comparisons are strict.
C3_Selection ==
  Returned =>
    LET m == matched_products
        n == Len(m)
        recs == response.recommendations
        perfect == /\ n >= 1
                   /\ m[1].score > 900
                   /\ (n = 1 \/ m[1].score - m[2].score > 50)
        expected == IF n = 0 THEN 0
                    ELSE IF perfect THEN 1
                    ELSE IF n >= 3 THEN 3
                    ELSE n
    IN /\ Len(recs) = expected
       /\ \A i \in 1..expected :
            recs[i].id = m[i].id /\ recs[i].score = m[i].score
       /\ (n = 0) = (response.type = "no_results")

\* C3 witness: three or more survivors whose leader is above 0.90 and
\* exactly 0.05 ahead of the runner-up; the top three are returned.
C3_Witness ==
  /\ Returned
  /\ Len(matched_products) >= 3
  /\ matched_products[1].score > 900
  /\ matched_products[1].score - matched_products[2].score = 50
  /\ Len(response.recommendations) = 3

\* the intent call failed, or its first token names no intent
Unrecognised ==
  \/ intent_error
  \/ /\ ~HasWord(<<"G","R","E","E","T","I","N","G">>)
     /\ ~HasWord(<<"Q","U","E","S","T","I","O","N">>)
     /\ ~HasWord(<<"F","O","L","L","O","W","_","U","P">>)

\* C4: when the intent call fails or its first token (upper-cased) contains
\* none of GREETING, QUESTION, FOLLOW_UP, the request runs the search
\* pipeline: the query extraction is called, the Q&A and follow-up models
\* are not, and the response is products or no_results.
C4_DefaultSearch ==
  (Routed /\ Unrecognised) =>
    /\ calls.query = 1
    /\ calls.qa = 0
    /\ calls.followup = 0
    /\ response.type \in {"none", "products", "no_results"}
    /\ Returned => response.type \in {"products", "no_results"}

\* C4 witness: the intent call failed on a request that carries shown
\* products, and the search pipeline returned products.
C4_Witness ==
  /\ Returned
  /\ intent_error
  /\ query.last_products.items # <<>>
  /\ calls.query = 1
  /\ response.type = "products"

\* C5: QUESTION takes the Q&A path and FOLLOW_UP the filter path only when
\* last_products is non-empty; with last_products absent or empty both are
\* handled as a search and neither the Q&A model nor the follow-up
\* extraction is called.
C5_NeedsLastProducts ==
  LET question == HasWord(<<"Q","U","E","S","T","I","O","N">>)
      followup == HasWord(<<"F","O","L","L","O","W","_","U","P">>)
      shown == query.last_products.given /\ Len(query.last_products.items) > 0
  IN /\ calls.qa > 0 => question /\ shown
     /\ calls.followup > 0 => followup /\ shown
     /\ response.type = "answer" => calls.qa = 1
     /\ (Routed /\ question /\ shown /\ ~HasWord(<<"G","R","E","E","T","I","N","G">>)) =>
          Returned /\ response.type = "answer" /\ calls.query = 0
     /\ (Routed /\ followup /\ ~question /\ shown
           /\ ~HasWord(<<"G","R","E","E","T","I","N","G">>)) =>
          calls.followup = 1 /\ calls.query = 0
     /\ (Routed /\ (question \/ followup) /\ ~shown
           /\ ~HasWord(<<"G","R","E","E","T","I","N","G">>)) =>
          /\ calls.query = 1
          /\ calls.qa = 0
          /\ calls.followup = 0
          /\ Returned => response.type \in {"products", "no_results"}

\* C5 witness: a QUESTION intent with an empty last_products list went
\* through query extraction, retrieval and selection.
C5_Witness ==
  /\ Returned
  /\ HasWord(<<"Q","U","E","S","T","I","O","N">>)
  /\ query.last_products.given
  /\ query.last_products.items = <<>>
  /\ calls.query = 1
  /\ calls.index = 1
  /\ response.type = "products"

\* C6: when the extracted category is sports or electronics the handler
\* returns no_results with the furniture-store message before any
\* embedding, index query or classification call.
C6_NonFurniture ==
  (Routed /\ category \in {Str(s_sports), Str(s_electronics)}) =>
    /\ Returned
    /\ response.type = "no_results"
    /\ response.response = "I couldn't find any furniture matching your search. This is a furniture store - try searching for sofas, beds, chairs, tables, or other home furnishings."
    /\ calls.embed = 0
    /\ calls.index = 0
    /\ calls.classify = 0

\* C6 witness: a request whose extracted category is electronics returned.
C6_Witness ==
  /\ Returned
  /\ category = Str(s_electronics)
  /\ calls.query = 1
  /\ response.type = "no_results"

\* C7: a candidate whose classified category differs from a requested
\* category other than "other" is never among the kept matches nor in the
\* returned recommendations.
C7_CategoryPrecedence ==
  \A i \in 1..Len(classified) :
    (category # Str(s_other) /\ Str(classified[i]) # category) =>
      /\ matches[i].id \notin Ids(matched_products)
      /\ matches[i].id \notin Ids(response.recommendations)

\* C7 witness: products were returned for a sofa request although the
\* best-scoring candidate, whose attributes pass every filter, was
\* classified otherwise.
C7_Witness ==
  /\ Returned
  /\ response.type = "products"
  /\ category = Str(s_sofa)
  /\ Str(classified[1]) # category
  /\ KeepMatch(matches[1].metadata.title.s, matches[1].metadata, params) = "pass"
  /\ \A i \in 1..Len(response.recommendations) :
       response.recommendations[i].score < matches[1].score

\* C8: classify_product_title only returns one of sofa, chair, bed, table,
\* ottoman, storage, other.
C8_ClassifierRange ==
  \A i \in 1..Len(classified) :
    classified[i] \in {s_sofa, s_chair, s_bed, s_table, s_ottoman, s_storage, s_other}

\* the constraint on key as the claim states it: absent, or a
\* case-insensitive substring of the product's field or of its title
C9_Passes(product, key) ==
  \/ ~Truthy(Get(filters, key))
  \/ Contains(lower(filters[key].s), lower(OrEmpty(product[key])))
  \/ Contains(lower(filters[key].s), lower(product.title))

\* C9: a product survives the Filter Engine exactly when the price and size
\* predicates pass and each of color, material and brand is absent or
\* matches the product's field or its title.
C9_FieldOrTitle ==
  pc = "filtered" =>
    \A i \in 1..Len(query.last_products.items) :
      LET product == query.last_products.items[i]
      IN (product.id \in Ids(filtered)) <=>
           /\ PriceCheck(product.price, filters) = "pass"
           /\ SizeCheck(product, filters) = "pass"
           /\ \A key \in {"color", "material", "brand"} : C9_Passes(product, key)

\* C10: with a FilterSpec whose every field is null or absent the Filter
\* Engine returns its input list, same elements in the same order.
C10_NullSpecKeepsAll ==
  (pc = "filtered" /\ \A k \in DictKeys : filters[k].t \in {"absent", "null"}) =>
    filtered = query.last_products.items

\* C10 witness: the engine has run on a full-length list with a spec that
\* has null fields and no constraint.
C10_Witness ==
  /\ pc = "filtered"
  /\ \A k \in DictKeys : filters[k].t \in {"absent", "null"}
  /\ filters.price_max = None
  /\ filters.brand = None
  /\ Len(query.last_products.items) = MaxFilterLen
  /\ filtered = query.last_products.items

\* the price is absent, null, empty, 'N/A' or a string without a digit
NoNumericPrice(price) ==
  \/ price.t \in {"absent", "null"}
  \/ /\ price.t = "str"
     /\ \/ price.s = <<"N","/","A">>
        \/ \A i \in 1..Len(price.s) : ~IsDigit(price.s[i])

\* the price parses to a number strictly above the numeric price_max of f
PriceAbove(price, f) ==
  /\ f.price_max.t = "num"
  /\ price.t = "str"
  /\ extract_price(price).some
  /\ extract_price(price).val > f.price_max.n

\* C11: on the follow-up path and on the search path a product whose price
\* is absent, 'N/A' or without a numeric token is never rejected by the
\* price predicate, and a product that the other predicates accept is left
\* out only when its price parses to a number strictly above price_max.
C11_PricePredicate ==
  /\ (Returned /\ calls.followup = 1) =>
       \A i \in 1..Len(query.last_products.items) :
         LET product == query.last_products.items[i]
             others == /\ ColorCheck(product, filters) = "pass"
                       /\ SizeCheck(product, filters) = "pass"
                       /\ MaterialCheck(product, filters) = "pass"
                       /\ BrandCheck(product, filters) = "pass"
         IN /\ (NoNumericPrice(product.price) /\ others) =>
                 product.id \in Ids(filtered)
            /\ (others /\ product.id \notin Ids(filtered)) =>
                 PriceAbove(product.price, filters)
  /\ \A i \in 1..Len(classified) :
       LET metadata == matches[i].metadata
           title == GetOr(metadata, "title", Str(<<>>))
           others == /\ title.t = "str"
                     /\ ~CategoryMismatch(category, classified[i])
                     /\ AttributeCheck("material", title.s, metadata, params) = "pass"
                     /\ AttributeCheck("color", title.s, metadata, params) = "pass"
           raised_here == pc = "raised" /\ i = Len(classified)
       IN /\ (NoNumericPrice(metadata.price) /\ others) =>
               matches[i].id \in Ids(matched_products)
          /\ (others /\ ~raised_here /\ matches[i].id \notin Ids(matched_products)) =>
               PriceAbove(metadata.price, params)

\* C11 witness: a search with price_max 4.00 kept a candidate without a
\* price and a candidate priced exactly 4.00 and dropped a dearer one.
C11_Witness ==
  /\ Returned
  /\ params.price_max = Num(400)
  /\ \E i, j, k \in 1..Len(matches) :
       /\ matches[i].metadata.price = Absent
       /\ matches[i].id \in Ids(matched_products)
       /\ matches[j].metadata.price.t = "str"
       /\ extract_price(matches[j].metadata.price).val = 400
       /\ matches[j].id \in Ids(matched_products)
       /\ PriceAbove(matches[k].metadata.price, params)
       /\ matches[k].id \notin Ids(matched_products)

\* C12: filtering is idempotent: running the Filter Engine with the same
\* FilterSpec on the list it produced gives that list again, same elements
\* in the same order.
C12_Idempotent == [][pc = "filtered" => filtered' = filtered]_vars

\* C12 witness: the engine ran twice with a price and a color constraint;
\* the first run had removed products and left some.
C12_Witness ==
  /\ pc = "refiltered"
  /\ Truthy(filters.price_max)
  /\ Truthy(filters.color)
  /\ filtered # <<>>
  /\ Len(filtered) < Len(query.last_products.items)

\* C13: when the classification model call fails, classify_product_title
\* gives the result of the keyword scan over the title (sofa family, chair,
\* bed, table, ottoman, first group wins) and "other" only when no group
\* matches.
C13_FailureFallsBack ==
  \A i \in 1..Len(classified) :
    LET title == GetOr(matches[i].metadata, "title", Str(<<>>))
    IN (pc = "classified" /\ i = Len(classified) /\ ~classifier_reply.ok
          /\ title.t = "str") =>
         classified[i] = KeywordCategory(lower(title.s))

\* C14: on the search path, when the extracted JSON has no category key
\* or a null category, no candidate is discarded for its category: a
\* candidate is kept exactly when the material, color and price_max
\* predicates pass.
C14_NoCategoryNoConstraint ==
  \A i \in 1..Len(classified) :
    LET metadata == matches[i].metadata
        title == GetOr(metadata, "title", Str(<<>>))
    IN (params.category.t \in {"absent", "null"} /\ title.t = "str") =>
         ((matches[i].id \in Ids(matched_products)) <=>
            KeepMatch(title.s, metadata, params) = "pass")

\* the positions of last_products whose product passes every predicate of
\* the extracted filters
Survivors ==
  {i \in 1..Len(query.last_products.items) :
     KeepProduct(query.last_products.items[i], filters) = "pass"}

\* the j-th survivor in the order of last_products
NthSurvivor(j) ==
  CHOOSE i \in Survivors : Cardinality({m \in Survivors : m < i}) = j - 1

\* C15: a response of the follow-up path recommends exactly the first
\* min(3, k) of the k products of last_products that pass every predicate,
\* in their original order; with k = 0 the response is no_results.
C15_FirstSurvivors ==
  (Returned /\ calls.followup = 1) =>
    LET k == Cardinality(Survivors)
        n == IF k < TopN THEN k ELSE TopN
        recs == response.recommendations
    IN IF k = 0
       THEN response.type = "no_results" /\ recs = <<>>
       ELSE /\ response.type = "products"
            /\ Len(recs) = n
            /\ \A j \in 1..n : recs[j] = query.last_products.items[NthSurvivor(j)]

\* a follow-up response whose survivors are not a prefix of last_products:
\* a rejected product lies between two recommended ones
C15_Witness ==
  /\ Returned
  /\ calls.followup = 1
  /\ response.type = "products"
  /\ Len(response.recommendations) = TopN
  /\ \E i \in 1..Len(query.last_products.items) :
       /\ i \notin Survivors
       /\ \E a \in Survivors : a < i
       /\ \E b \in Survivors : b > i

\* line 548: the number of neighbours asked of the index
top_k == 20

\* C16: within one request the intent model is invoked exactly once, at most
\* one filter-extraction call is made (follow-up or query extraction, never
\* both, never twice), at most one embedding and one index query are made,
\* the classifier is invoked once per candidate processed, never more often
\* than the index returned candidates (at most 20), and no call is made
\* again after it failed.
C16_BoundedCalls ==
  /\ calls.intent = (IF pc = "intent" THEN 0 ELSE 1)
  /\ calls.followup + calls.query <= 1
  /\ calls.embed <= 1
  /\ calls.index <= 1
  /\ calls.classify = idx - 1
  /\ calls.classify = Len(classified)
  /\ calls.classify <= Len(matches)
  /\ Len(matches) <= top_k
  /\ calls.qa <= 1
  /\ calls.qa + calls.followup + calls.query <= 1

\* a search whose intent call failed and whose last classification failed:
\* every call was made once, the classifier once per candidate
C16_Witness ==
  /\ Returned
  /\ intent_error
  /\ ~classifier_reply.ok
  /\ Len(matches) = MaxMatches
  /\ calls = [intent |-> 1, qa |-> 0, followup |-> 0, query |-> 1, embed |-> 1,
              index |-> 1, classify |-> MaxMatches]

====
